---- MODULE Spec2Model ----
(***************************************************************************)
(* Model of terramind-service/app.py: the TerraMindProcessor object, its   *)
(* construction, and the three Flask handlers /health, /analyze and        *)
(* /capabilities.                                                          *)
(*                                                                         *)
(* Conventions                                                             *)
(*  - a Python str is a sequence of one-character strings;                 *)
(*  - a JSON value is a record [t |-> tag, v |-> payload], tag one of      *)
(*    "null", "num", "str", "list", "obj"; an object's payload is a        *)
(*    function from its keys to JSON values;                               *)
(*  - latitudes and longitudes are integers in units of 1/Scale degree;    *)
(*  - a call that may raise returns Ok(value) or Raise(exception name);    *)
(*  - a draw of np.random.uniform(lo, hi) is lo + (hi - lo) * u / steps    *)
(*    for a unit draw u in 0 .. steps - 1, so lo is drawn and hi is not.   *)
(***************************************************************************)
EXTENDS Integers, Sequences, FiniteSets, TLC

VARIABLES
    phase,      \* "boot" before `processor = TerraMindProcessor()`, "running" after
    env,        \* os.getenv('TERRAMIND_DEMO_MODE'): Unset or a str
    load,       \* what the model load did during __init__ ("not_attempted" or its outcome)
    processor,  \* the global TerraMindProcessor instance (its attributes)
    request,    \* the request being answered
    response,   \* the handler's return value: endpoint, status, body
    rnd,        \* what the random generator returned while answering the request
    calls,      \* processor methods entered while answering the request, in order
    prev        \* some earlier 200 /analyze answer: its request body, draws, lat, lng,
                \* primary_class and risk_factors

vars == <<phase, env, load, processor, request, response, rnd, calls, prev>>

----------------------------------------------------------------------------
(* Bounds of the model *)

\* unit draws available to the numeric fields other than NDVI
DrawSteps == 2
\* unit draws available to base_ndvi in the request-level specifications
NdviSteps == 2
\* unit draws available to base_ndvi in the vegetation specification
VegSteps == 400
\* grid half-width, in steps, around each center in the zoning specification
GridSteps == 10
\* words per query in the insights specification
MaxWords == 2

----------------------------------------------------------------------------
(* Python str *)

Str_true == <<"t", "r", "u", "e">>
Str_True == <<"T", "r", "u", "e">>
Str_TRUE == <<"T", "R", "U", "E">>
Str_tRuE == <<"t", "R", "u", "E">>
Str_false == <<"f", "a", "l", "s", "e">>
Str_one == <<"1">>
Str_empty == <<>>
Str_fishing == <<"f", "i", "s", "h", "i", "n", "g">>
Str_water == <<"w", "a", "t", "e", "r">>
Str_development == <<"d", "e", "v", "e", "l", "o", "p", "m", "e", "n", "t">>
Str_general == <<"g", "e", "n", "e", "r", "a", "l">>
Str_Fishing == <<"F", "i", "s", "h", "i", "n", "g">>
Str_WATER == <<"W", "A", "T", "E", "R">>

UpperToLower ==
    [c \in {"A", "B", "C", "D", "E", "F", "G", "H", "I", "J", "K", "L", "M",
            "N", "O", "P", "Q", "R", "S", "T", "U", "V", "W", "X", "Y", "Z"} |->
        CASE c = "A" -> "a" [] c = "B" -> "b" [] c = "C" -> "c" [] c = "D" -> "d"
          [] c = "E" -> "e" [] c = "F" -> "f" [] c = "G" -> "g" [] c = "H" -> "h"
          [] c = "I" -> "i" [] c = "J" -> "j" [] c = "K" -> "k" [] c = "L" -> "l"
          [] c = "M" -> "m" [] c = "N" -> "n" [] c = "O" -> "o" [] c = "P" -> "p"
          [] c = "Q" -> "q" [] c = "R" -> "r" [] c = "S" -> "s" [] c = "T" -> "t"
          [] c = "U" -> "u" [] c = "V" -> "v" [] c = "W" -> "w" [] c = "X" -> "x"
          [] c = "Y" -> "y" [] c = "Z" -> "z"]

\* str.lower()
Lower(s) ==
    [i \in 1..Len(s) |-> IF s[i] \in DOMAIN UpperToLower THEN UpperToLower[s[i]] ELSE s[i]]

\* `sub in s`
Contains(s, sub) ==
    \E i \in 0..(Len(s) - Len(sub)) : SubSeq(s, i + 1, i + Len(sub)) = sub

----------------------------------------------------------------------------
(* JSON values and Python's view of them *)

JNull == [t |-> "null", v |-> 0]
JNum(n) == [t |-> "num", v |-> n]
JStr(s) == [t |-> "str", v |-> s]
JList(l) == [t |-> "list", v |-> l]
JObj(f) == [t |-> "obj", v |-> f]
EmptyObj == JObj(<<>>)

\* a request without a JSON body, and one whose JSON does not parse
BodyAbsent == [t |-> "absent", v |-> 0]
BodyMalformed == [t |-> "malformed", v |-> 0]

Ok(x) == [ok |-> TRUE, v |-> x]
Raise(e) == [ok |-> FALSE, exc |-> e]

\* bool(j): None, 0, '', [] and {} are falsy
Truthy(j) ==
    CASE j.t = "null" -> FALSE
      [] j.t = "num" -> j.v # 0
      [] j.t = "str" -> Len(j.v) > 0
      [] j.t = "list" -> Len(j.v) > 0
      [] j.t = "obj" -> DOMAIN j.v # {}

\* dict.get(key, default); only a dict has .get
DictGet(j, key, default) ==
    IF j.t # "obj" THEN Raise("AttributeError")
    ELSE IF key \in DOMAIN j.v THEN Ok(j.v[key]) ELSE Ok(default)

\* the record of a dict with the given keys
Dict1(k1, v1) == JObj([k \in {k1} |-> v1])
Dict2(k1, v1, k2, v2) == JObj([k \in {k1, k2} |-> IF k = k1 THEN v1 ELSE v2])

----------------------------------------------------------------------------
(* Units and random draws *)

\* coordinates are integers in units of 1/Scale degree (the centers have 4 decimals)
Scale == 10 ^ 4
\* base_ndvi is an integer in units of 1/NdviScale
NdviScale == 10 ^ 4
\* the "rough km conversion" factor of is_urban_area / is_coastal_area
KmPerDegree == 111

Abs(x) == IF x < 0 THEN -x ELSE x

\* np.random.uniform(lo, hi) for the unit draw u out of steps: lo included, hi excluded
Uniform(lo, hi, u, steps) == lo + ((hi - lo) * u) \div steps

\* np.random.choice(options) for the unit draw u
Choice(options, u) == options[(u % Len(options)) + 1]

\* round(x, 3) of a value in units of 1/NdviScale, in thousandths
Round3(x) == (x + 5) \div 10

\* what the random generator returns during one request: the unit draw behind
\* base_ndvi, and the unit draw behind the other numeric and choice fields
Draws(ndviSteps) == [ndvi : 0..(ndviSteps - 1), num : 0..(DrawSteps - 1), ndviSteps : {ndviSteps}]

----------------------------------------------------------------------------
(* TerraMindProcessor: helper methods *)

\* (lat, lng, radius km) of Chennai, Bangalore, Mumbai, Delhi
urban_centers ==
    << <<130827, 802707, 50>>, <<129716, 775946, 50>>,
       <<190760, 728777, 50>>, <<287041, 771025, 50>> >>

\* (lat, lng, radius km) of the Chennai, Mumbai and Pondicherry coasts
coastal_regions ==
    << <<130827, 802707, 30>>, <<190760, 728777, 20>>, <<119416, 798083, 15>> >>

\* ((lat - center_lat)**2 + (lng - center_lng)**2)**0.5 * 111 <= radius, decided
\* exactly on integers: with N = dx^2 + dy^2 the test is N * 111^2 <= (radius * Scale)^2.
\* The two first conjuncts (each implied by the test) keep N small, and the
\* product N * 111^2 is compared in two limbs, base Scale.
WithinRadius(lat, lng, center) ==
    LET dx == Abs(lat - center[1])
        dy == Abs(lng - center[2])
        radius == center[3]
        k2 == KmPerDegree * KmPerDegree
        N == dx * dx + dy * dy
        hi == (N \div Scale) * k2 + ((N % Scale) * k2) \div Scale
        lo == ((N % Scale) * k2) % Scale
    IN  /\ dx * KmPerDegree <= radius * Scale
        /\ dy * KmPerDegree <= radius * Scale
        /\ \/ hi < radius * radius * Scale
           \/ hi = radius * radius * Scale /\ lo = 0

\* the loop `for center in centers: if distance <= radius: return True`; the
\* subtraction raises TypeError on a lat or lng that is no number
InAnyCircle(lat, lng, centers) ==
    IF lat.t # "num" \/ lng.t # "num" THEN Raise("TypeError")
    ELSE Ok(\E i \in 1..Len(centers) : WithinRadius(lat.v, lng.v, centers[i]))

is_urban_area(lat, lng) == InAnyCircle(lat, lng, urban_centers)

is_coastal_area(lat, lng) == InAnyCircle(lat, lng, coastal_regions)

\* the thresholds taken inclusively
categorize_vegetation_health_inclusive(ndvi) ==
    IF ndvi * 10 >= 7 * NdviScale THEN "excellent"
    ELSE IF ndvi * 10 >= 5 * NdviScale THEN "good"
    ELSE IF ndvi * 10 >= 3 * NdviScale THEN "moderate"
    ELSE IF ndvi * 10 >= 1 * NdviScale THEN "poor"
    ELSE "very_poor"

\* thresholds 0.7, 0.5, 0.3, 0.1 on base_ndvi
categorize_vegetation_health(ndvi) ==
    IF ndvi * 10 > 7 * NdviScale THEN "excellent"
    ELSE IF ndvi * 10 > 5 * NdviScale THEN "good"
    ELSE IF ndvi * 10 > 3 * NdviScale THEN "moderate"
    ELSE IF ndvi * 10 > 1 * NdviScale THEN "poor"
    ELSE "very_poor"

generate_vegetation_recommendations(ndvi, analysis_type) ==
    IF ndvi * 10 < 3 * NdviScale THEN
        << "Consider soil health improvement programs",
           "Implement water conservation measures",
           "Monitor for pest and disease pressure" >>
    ELSE IF ndvi * 10 < 6 * NdviScale THEN
        << "Maintain current management practices",
           "Monitor seasonal variations",
           "Consider precision agriculture techniques" >>
    ELSE
        << "Excellent vegetation health detected",
           "Continue current conservation practices",
           "Consider this area for biodiversity studies" >>

\* the water test taken before the fishing one
generate_geospatial_insights_water_first(query, analysis_type) ==
    IF query.t # "str" THEN Raise("AttributeError")
    ELSE IF Contains(Lower(query.v), Str_water) THEN
        Ok(<< "Multi-spectral analysis reveals water body health status",
              "NDWI indicators show adequate water availability",
              "No significant contamination detected in satellite imagery" >>)
    ELSE IF Contains(Lower(query.v), Str_fishing) THEN
        Ok(<< "Coastal water quality analysis indicates safe fishing conditions",
              "Satellite data shows stable marine ecosystem health",
              "No significant pollution indicators detected in water bodies" >>)
    ELSE IF Contains(Lower(query.v), Str_development) THEN
        Ok(<< "Land use change analysis shows development patterns",
              "Urban expansion rate within sustainable limits",
              "Environmental impact assessment suggests moderate pressure" >>)
    ELSE
        Ok(<< "Comprehensive satellite analysis completed",
              "Multi-temporal change detection reveals stable conditions",
              "Environmental health indicators within normal ranges" >>)

\* query.lower() raises AttributeError on a query that is no str
generate_geospatial_insights(query, analysis_type) ==
    IF query.t # "str" THEN Raise("AttributeError")
    ELSE IF Contains(Lower(query.v), Str_fishing) THEN
        Ok(<< "Coastal water quality analysis indicates safe fishing conditions",
              "Satellite data shows stable marine ecosystem health",
              "No significant pollution indicators detected in water bodies" >>)
    ELSE IF Contains(Lower(query.v), Str_water) THEN
        Ok(<< "Multi-spectral analysis reveals water body health status",
              "NDWI indicators show adequate water availability",
              "No significant contamination detected in satellite imagery" >>)
    ELSE IF Contains(Lower(query.v), Str_development) THEN
        Ok(<< "Land use change analysis shows development patterns",
              "Urban expansion rate within sustainable limits",
              "Environmental impact assessment suggests moderate pressure" >>)
    ELSE
        Ok(<< "Comprehensive satellite analysis completed",
              "Multi-temporal change detection reveals stable conditions",
              "Environmental health indicators within normal ranges" >>)

\* the coastal test taken before the urban one
assess_environmental_risks_coastal_first(lat, lng, analysis_type) ==
    LET urban == is_urban_area(lat, lng)
        coastal == is_coastal_area(lat, lng)
    IN  IF ~coastal.ok THEN coastal
        ELSE IF coastal.v THEN
            Ok(<< [type |-> "sea_level_rise", level |-> "moderate", confidence |-> 85],
                  [type |-> "coastal_erosion", level |-> "low", confidence |-> 72],
                  [type |-> "storm_surge", level |-> "moderate", confidence |-> 80] >>)
        ELSE IF urban.v THEN
            Ok(<< [type |-> "air_pollution", level |-> "moderate", confidence |-> 82],
                  [type |-> "urban_heat_island", level |-> "high", confidence |-> 78],
                  [type |-> "water_stress", level |-> "moderate", confidence |-> 75] >>)
        ELSE
            Ok(<< [type |-> "drought_risk", level |-> "low", confidence |-> 88],
                  [type |-> "soil_degradation", level |-> "moderate", confidence |-> 75],
                  [type |-> "biodiversity_loss", level |-> "low", confidence |-> 82] >>)

\* confidences are in hundredths
assess_environmental_risks(lat, lng, analysis_type) ==
    LET urban == is_urban_area(lat, lng)
        coastal == is_coastal_area(lat, lng)
    IN  IF ~urban.ok THEN urban
        ELSE IF urban.v THEN
            Ok(<< [type |-> "air_pollution", level |-> "moderate", confidence |-> 82],
                  [type |-> "urban_heat_island", level |-> "high", confidence |-> 78],
                  [type |-> "water_stress", level |-> "moderate", confidence |-> 75] >>)
        ELSE IF ~coastal.ok THEN coastal
        ELSE IF coastal.v THEN
            Ok(<< [type |-> "sea_level_rise", level |-> "moderate", confidence |-> 85],
                  [type |-> "coastal_erosion", level |-> "low", confidence |-> 72],
                  [type |-> "storm_surge", level |-> "moderate", confidence |-> 80] >>)
        ELSE
            Ok(<< [type |-> "drought_risk", level |-> "low", confidence |-> 88],
                  [type |-> "soil_degradation", level |-> "moderate", confidence |-> 75],
                  [type |-> "biodiversity_loss", level |-> "low", confidence |-> 82] >>)

----------------------------------------------------------------------------
(* TerraMindProcessor: the demo generators. r is the request's draws; shares  *)
(* are in tenths, confidences in hundredths or thousandths as rounded.        *)

U(lo, hi, r) == Uniform(lo, hi, r.num, DrawSteps)

\* the class drawn at random like the other fields
simulate_land_use_classification_drawn(lat, lng, analysis_type, r) ==
    LET is_urban == is_urban_area(lat, lng)
    IN  IF ~is_urban.ok THEN is_urban
        ELSE Ok([primary_class |-> Choice(<<"urban", "coastal_mixed", "agricultural">>, r.num),
                 confidence |-> 87,
                 classes |-> [urban |-> U(450, 650, r), agriculture |-> U(500, 700, r)]])

simulate_land_use_classification(lat, lng, analysis_type, r) ==
    LET is_urban == is_urban_area(lat, lng)
        is_coastal == is_coastal_area(lat, lng)
    IN  IF ~is_urban.ok THEN is_urban
        ELSE IF ~is_coastal.ok THEN is_coastal
        ELSE IF is_urban.v THEN
            Ok([primary_class |-> "urban", confidence |-> 87,
                classes |-> [urban |-> U(450, 650, r), vegetation |-> U(200, 350, r),
                             water |-> U(50, 150, r), agriculture |-> U(50, 150, r),
                             bare_soil |-> U(20, 80, r)],
                change_indicators |-> [urban_expansion |-> "+2.3% annually",
                                       vegetation_loss |-> "-1.8% annually"]])
        ELSE IF is_coastal.v THEN
            Ok([primary_class |-> "coastal_mixed", confidence |-> 82,
                classes |-> [water |-> U(350, 550, r), vegetation |-> U(250, 400, r),
                             urban |-> U(150, 250, r), sand |-> U(50, 150, r),
                             agriculture |-> U(30, 100, r)],
                coastal_indicators |-> [erosion_rate |-> "0.5m/year",
                                        water_quality |-> "moderate"]])
        ELSE
            Ok([primary_class |-> "agricultural", confidence |-> 91,
                classes |-> [agriculture |-> U(500, 700, r), vegetation |-> U(200, 350, r),
                             water |-> U(30, 100, r), urban |-> U(20, 80, r),
                             bare_soil |-> U(50, 150, r)],
                agricultural_indicators |-> [crop_health |-> "good",
                                             irrigation_efficiency |-> "moderate"]])

\* base_ndvi = np.random.uniform(0.3, 0.8), in units of 1/NdviScale
base_ndvi(r) == Uniform(3 * (NdviScale \div 10), 8 * (NdviScale \div 10), r.ndvi, r.ndviSteps)

simulate_vegetation_health_analysis(satellite_data, analysis_type, r) ==
    [ndvi_score |-> Round3(base_ndvi(r)),
     health_category |-> categorize_vegetation_health(base_ndvi(r)),
     stress_indicators |->
        [drought_stress |-> IF base_ndvi(r) * 10 > 6 * NdviScale THEN "low" ELSE "moderate",
         disease_pressure |-> Choice(<<"low", "moderate">>, r.num),
         nutrient_status |-> Choice(<<"adequate", "deficient">>, r.num)],
     temporal_trends |->
        [six_month_change |-> U(-50, 100, r),
         seasonal_pattern |-> "normal",
         growth_trajectory |-> Choice(<<"stable", "improving", "declining">>, r.num)],
     recommendations |-> generate_vegetation_recommendations(base_ndvi(r), analysis_type)]

simulate_change_detection_analysis(lat, lng, r) ==
    [temporal_analysis |->
        [analysis_period |-> "12 months",
         significant_changes |-> U(50, 250, r),
         change_confidence |-> U(800, 950, r)],
     land_cover_changes |->
        [deforestation |-> U(0, 30, r), urban_expansion |-> U(10, 80, r),
         water_body_changes |-> U(-20, 20, r), agricultural_conversion |-> U(-10, 50, r)],
     hotspots |->
        << [type |-> "urban_development", intensity |-> "high", area |-> U(50, 200, r)],
           [type |-> "vegetation_change", intensity |-> "moderate", area |-> U(100, 500, r)] >>]

simulate_environmental_assessment(query, analysis_type, r) ==
    [environmental_score |-> U(65, 92, r),
     sustainability_indicators |->
        [carbon_sequestration |-> U(50, 150, r),
         biodiversity_index |-> U(60, 90, r),
         ecosystem_health |-> Choice(<<"excellent", "good", "moderate">>, r.num)],
     human_impact_factors |->
        [pollution_pressure |-> Choice(<<"low", "moderate", "high">>, r.num),
         development_pressure |-> Choice(<<"low", "moderate", "high">>, r.num),
         resource_exploitation |-> Choice(<<"sustainable", "moderate", "intensive">>, r.num)],
     predictive_insights |->
        [five_year_outlook |-> Choice(<<"stable", "improving", "declining">>, r.num),
         risk_factors |-> <<"climate_change", "urban_expansion", "water_stress">>,
         opportunities |-> <<"conservation", "sustainable_development", "restoration">>]]

\* The sections are evaluated in the order of the source, so the first one that
\* raises decides the exception. metadata.timestamp (the wall clock) is left out.
generate_demo_analysis(query, satellite_data, coordinates, analysis_type, r) ==
    LET lat == DictGet(coordinates, "lat", JNum(0))
        lng == DictGet(coordinates, "lng", JNum(0))
        land_use_analysis == simulate_land_use_classification(lat.v, lng.v, analysis_type, r)
        insights == generate_geospatial_insights(query, analysis_type)
        risks == assess_environmental_risks(lat.v, lng.v, analysis_type)
    IN  IF ~lat.ok THEN lat
        ELSE IF ~land_use_analysis.ok THEN land_use_analysis
        ELSE IF ~insights.ok THEN insights
        ELSE IF ~risks.ok THEN risks
        ELSE Ok([success |-> TRUE,
                 model |-> "TerraMind-1.0-large",
                 mode |-> "demo",
                 analysis |->
                    [land_use_classification |-> land_use_analysis.v,
                     vegetation_health |->
                        simulate_vegetation_health_analysis(satellite_data, analysis_type, r),
                     change_detection |-> simulate_change_detection_analysis(lat.v, lng.v, r),
                     environmental_assessment |->
                        simulate_environmental_assessment(query, analysis_type, r),
                     multimodal_confidence |-> U(750, 950, r),
                     geospatial_insights |-> insights.v,
                     risk_factors |-> risks.v],
                 metadata |->
                    [coordinates |-> coordinates,
                     analysis_type |-> analysis_type,
                     modalities_processed |-> <<"optical", "sar", "climate", "text">>,
                     processing_time |-> U(120, 350, r)]])

----------------------------------------------------------------------------
(* TerraMindProcessor: the real-inference path *)

\* the f-string subscripts coordinates['lat'] and coordinates['lng'] and formats
\* each with :.4f
build_geospatial_prompt(query, coordinates, analysis_type) ==
    IF coordinates.t # "obj" THEN Raise("TypeError")
    ELSE IF "lat" \notin DOMAIN coordinates.v THEN Raise("KeyError")
    ELSE IF coordinates.v["lat"].t # "num" THEN Raise("ValueError")
    ELSE IF "lng" \notin DOMAIN coordinates.v THEN Raise("KeyError")
    ELSE IF coordinates.v["lng"].t # "num" THEN Raise("ValueError")
    ELSE Ok("prompt")

\* as if the three missing methods existed and the model's output were parsed
run_terramind_analysis_parsed(self, query, satellite_data, coordinates, analysis_type, tok) ==
    [out |-> Ok([success |-> TRUE, model |-> "TerraMind-1.0-large", mode |-> "production",
                 analysis |-> [generated_text |-> "text"],
                 metadata |-> [coordinates |-> coordinates]]),
     calls |-> <<"run_terramind_analysis", "build_geospatial_prompt", "tokenizer",
                 "process_satellite_modalities", "combine_input_modalities",
                 "model.generate", "parse_terramind_output">>]

\* tok is what the external tokenizer call does ("ok" or "raise").  The class
\* defines no process_satellite_modalities (nor combine_input_modalities, nor
\* parse_terramind_output), so the first of them raises AttributeError and
\* model.generate is never reached.  Returns the outcome and the steps entered.
run_terramind_analysis(self, query, satellite_data, coordinates, analysis_type, tok) ==
    LET text_prompt == build_geospatial_prompt(query, coordinates, analysis_type)
    IN  IF ~text_prompt.ok THEN
            [out |-> text_prompt,
             calls |-> <<"run_terramind_analysis", "build_geospatial_prompt">>]
        ELSE IF tok = "raise" THEN
            [out |-> Raise("TokenizerError"),
             calls |-> <<"run_terramind_analysis", "build_geospatial_prompt", "tokenizer">>]
        ELSE
            [out |-> Raise("AttributeError"),
             calls |-> <<"run_terramind_analysis", "build_geospatial_prompt", "tokenizer",
                         "process_satellite_modalities">>]

\* without the except clause: the real path's exception propagates
analyze_geospatial_data_uncaught(self, query, satellite_data, coordinates, analysis_type, r, tok) ==
    LET demo == generate_demo_analysis(query, satellite_data, coordinates, analysis_type, r)
        real == run_terramind_analysis(self, query, satellite_data, coordinates,
                                       analysis_type, tok)
    IN  IF self.demo_mode \/ ~self.model_loaded THEN
            [self |-> self, out |-> demo, calls |-> <<"generate_demo_analysis">>]
        ELSE [self |-> self, out |-> real.out, calls |-> real.calls]

\* the except clause also switching the processor to demo mode
analyze_geospatial_data_sticky(self, query, satellite_data, coordinates, analysis_type, r, tok) ==
    LET demo == generate_demo_analysis(query, satellite_data, coordinates, analysis_type, r)
        real == run_terramind_analysis(self, query, satellite_data, coordinates,
                                       analysis_type, tok)
    IN  IF self.demo_mode \/ ~self.model_loaded THEN
            [self |-> self, out |-> demo,
             calls |-> IF demo.ok THEN <<"generate_demo_analysis">>
                       ELSE <<"generate_demo_analysis", "generate_demo_analysis">>]
        ELSE
            [self |-> [self EXCEPT !.demo_mode = TRUE], out |-> demo,
             calls |-> real.calls \o <<"generate_demo_analysis">>]

\* the branch on the flags left out: the real path is always tried first
analyze_geospatial_data_unguarded(self, query, satellite_data, coordinates, analysis_type, r, tok) ==
    LET demo == generate_demo_analysis(query, satellite_data, coordinates, analysis_type, r)
        real == run_terramind_analysis(self, query, satellite_data, coordinates,
                                       analysis_type, tok)
    IN  [self |-> self, out |-> demo,
         calls |-> real.calls \o <<"generate_demo_analysis">>]

\* try: demo or real path; except Exception: the demo generator again, whose own
\* exception then propagates.  Returns the processor afterwards, the outcome
\* and the methods entered.
analyze_geospatial_data(self, query, satellite_data, coordinates, analysis_type, r, tok) ==
    LET demo == generate_demo_analysis(query, satellite_data, coordinates, analysis_type, r)
        real == run_terramind_analysis(self, query, satellite_data, coordinates,
                                       analysis_type, tok)
    IN  IF self.demo_mode \/ ~self.model_loaded THEN
            IF demo.ok THEN
                [self |-> self, out |-> demo, calls |-> <<"generate_demo_analysis">>]
            ELSE
                [self |-> self, out |-> demo,
                 calls |-> <<"generate_demo_analysis", "generate_demo_analysis">>]
        ELSE IF real.out.ok THEN
            [self |-> self, out |-> real.out, calls |-> real.calls]
        ELSE
            [self |-> self, out |-> demo,
             calls |-> real.calls \o <<"generate_demo_analysis">>]

----------------------------------------------------------------------------
(* TerraMindProcessor.__init__ *)

Unset == [set |-> FALSE, v |-> <<>>]
EnvStr(s) == [set |-> TRUE, v |-> s]

\* os.getenv(name, default)
getenv(e, default) == IF e.set THEN e.v ELSE default

\* the environment value compared without .lower()
TerraMindProcessor_init_case_sensitive(e, outcome) ==
    LET demo_mode == (getenv(e, Str_true) = Str_true)
        base == [model_name |-> "ibm-esa-geospatial/TerraMind-1.0-large",
                 model_loaded |-> FALSE,
                 demo_mode |-> demo_mode,
                 tokenizer |-> "unset",
                 model |-> "unset"]
    IN  IF demo_mode THEN [self |-> base, load |-> "not_attempted"]
        ELSE IF outcome = "ok" THEN
            [self |-> [base EXCEPT !.tokenizer = "loaded", !.model = "loaded",
                                   !.model_loaded = TRUE],
             load |-> outcome]
        ELSE [self |-> [base EXCEPT !.demo_mode = TRUE], load |-> outcome]

\* outcome is what the load inside the try block does: "import_error" (the
\* transformers import fails), "tokenizer_error", "model_error" or "ok".
\* Returns the constructed processor and what the load did.
TerraMindProcessor_init(e, outcome) ==
    LET demo_mode == (Lower(getenv(e, Str_true)) = Str_true)
        base == [model_name |-> "ibm-esa-geospatial/TerraMind-1.0-large",
                 model_loaded |-> FALSE,
                 demo_mode |-> demo_mode,
                 tokenizer |-> "unset",
                 model |-> "unset"]
    IN  IF demo_mode THEN [self |-> base, load |-> "not_attempted"]
        ELSE IF outcome = "ok" THEN
            [self |-> [base EXCEPT !.tokenizer = "loaded", !.model = "loaded",
                                   !.model_loaded = TRUE],
             load |-> outcome]
        ELSE IF outcome = "model_error" THEN
            [self |-> [base EXCEPT !.tokenizer = "loaded", !.demo_mode = TRUE],
             load |-> outcome]
        ELSE
            [self |-> [base EXCEPT !.demo_mode = TRUE], load |-> outcome]

----------------------------------------------------------------------------
(* The Flask handlers.  Each returns the processor afterwards, the HTTP     *)
(* status, the JSON body and the processor methods entered.                 *)

health_check(self) ==
    [self |-> self, status |-> 200, calls |-> <<>>,
     body |-> [status |-> "healthy",
               model |-> "TerraMind-1.0-large",
               mode |-> IF self.demo_mode THEN "demo" ELSE "production",
               model_loaded |-> self.model_loaded]]

get_capabilities(self) ==
    [self |-> self, status |-> 200, calls |-> <<>>,
     body |-> [model |-> "TerraMind-1.0-large",
               modalities |-> <<"optical_imagery", "sar_radar", "climate_data", "land_use",
                                "vegetation_indices", "text_description",
                                "temporal_analysis", "change_detection",
                                "environmental_assessment">>,
               analysis_types |-> <<"fishing", "marine", "weather", "hiking", "driving",
                                    "agriculture", "urban_planning",
                                    "environmental_monitoring", "disaster_assessment">>,
               output_formats |-> <<"land_use_classification", "vegetation_health",
                                    "change_detection", "environmental_assessment",
                                    "risk_analysis">>]]

\* request.get_json(): what Flask can do with the body.  Without a JSON body it
\* returns None or raises (415), depending on the Flask release; a body that
\* does not parse raises BadRequest; otherwise the parsed value.
get_json(body) ==
    CASE body.t = "absent" -> {Ok(JNull), Raise("UnsupportedMediaType")}
      [] body.t = "malformed" -> {Raise("BadRequest")}
      [] OTHER -> {Ok(body)}

\* without the handler's except clause: the exception leaves the handler
AnalysisFailed_escapes(self, exc, entered) ==
    [self |-> self, status |-> 0, calls |-> entered, body |-> [escaped |-> exc]]

\* the `except Exception` branch of the handler
AnalysisFailed(self, exc, entered) ==
    [self |-> self, status |-> 500, calls |-> entered,
     body |-> [error |-> "Analysis failed", message |-> exc, fallback |-> TRUE]]

\* gj is the outcome of request.get_json()
analyze_geospatial(self, gj, r, tok) ==
    LET data == gj.v
        query == DictGet(data, "query", JStr(Str_empty))
        satellite_data == DictGet(data, "satellite_data", EmptyObj)
        coordinates == DictGet(data, "coordinates", EmptyObj)
        analysis_type == DictGet(data, "analysis_type", JStr(Str_general))
        result == analyze_geospatial_data(self, query.v, satellite_data.v, coordinates.v,
                                          analysis_type.v, r, tok)
    IN  IF ~gj.ok THEN AnalysisFailed(self, gj.exc, <<>>)
        ELSE IF ~Truthy(data) THEN
            [self |-> self, status |-> 400, calls |-> <<>>,
             body |-> [error |-> "No data provided"]]
        ELSE IF ~query.ok THEN AnalysisFailed(self, query.exc, <<>>)
        \* query[:50] in the log line: only str and list can be sliced
        ELSE IF query.v.t \notin {"str", "list"} THEN AnalysisFailed(self, "TypeError", <<>>)
        ELSE IF ~result.out.ok THEN
            AnalysisFailed(result.self, result.out.exc, result.calls)
        ELSE
            [self |-> result.self, status |-> 200, calls |-> result.calls,
             body |-> result.out.v]

----------------------------------------------------------------------------
(* The inputs of the request-level specification *)

EnvValues ==
    {Unset, EnvStr(Str_true), EnvStr(Str_True), EnvStr(Str_TRUE),
     EnvStr(Str_false), EnvStr(Str_one)}

LoadOutcomes == {"import_error", "tokenizer_error", "model_error", "ok"}

TokOutcomes == {"ok", "raise"}

Absent == [present |-> FALSE, v |-> JNull]
Present(j) == [present |-> TRUE, v |-> j]

\* the JSON object with the present ones of the four fields
RequestObject(q, c, a, s) ==
    LET field == [k \in {"query", "coordinates", "analysis_type", "satellite_data"} |->
                    CASE k = "query" -> q
                      [] k = "coordinates" -> c
                      [] k = "analysis_type" -> a
                      [] k = "satellite_data" -> s]
    IN  JObj([k \in {f \in DOMAIN field : field[f].present} |-> field[k].v])

LatLng(lat, lng) == Dict2("lat", JNum(lat), "lng", JNum(lng))

Chennai == LatLng(130827, 802707)
ChennaiOutskirts == LatLng(134327, 802707)
Bangalore == LatLng(129716, 775946)
Pondicherry == LatLng(119416, 798083)
LatOnly == Dict1("lat", JNum(200000))

QueryOptions == {Absent, Present(JStr(Str_Fishing)), Present(JNum(5))}

CoordinateOptions ==
    {Absent, Present(Chennai), Present(Pondicherry),
     Present(JList(<<JNum(130827), JNum(802707)>>)),
     Present(Dict2("lat", JStr(<<"1", "3">>), "lng", JNum(802707)))}

Bodies ==
    {BodyAbsent, BodyMalformed, JNull, JList(<<>>), JList(<<JNum(1)>>),
     Dict1("foo", JNum(1)),
     RequestObject(Present(JStr(Str_WATER)), Present(Bangalore),
                   Present(JStr(Str_fishing)), Present(EmptyObj))}
    \cup {RequestObject(q, c, Absent, Absent) : q \in QueryOptions, c \in CoordinateOptions}

\* the requests of the pairwise specification: the same and different
\* coordinates under different queries
PairBodies ==
    {RequestObject(Present(JStr(q)), c, Absent, Absent) :
        q \in {Str_Fishing, Str_empty},
        c \in {Absent, Present(LatLng(0, 0)), Present(Chennai), Present(Pondicherry)}}

----------------------------------------------------------------------------
(* State machine *)

NoProcessor ==
    [model_name |-> "", model_loaded |-> FALSE, demo_mode |-> FALSE,
     tokenizer |-> "unset", model |-> "unset"]

NoPrev == [set |-> FALSE]

\* what an /analyze answer leaves for later comparison
Summary(req, resp, r) ==
    [set |-> TRUE,
     body |-> req.body,
     rnd |-> r,
     lat |-> DictGet(resp.body.metadata.coordinates, "lat", JNum(0)).v,
     lng |-> DictGet(resp.body.metadata.coordinates, "lng", JNum(0)).v,
     primary_class |-> resp.body.analysis.land_use_classification.primary_class,
     risk_factors |-> resp.body.analysis.risk_factors]

Init ==
    /\ phase = "boot"
    /\ env \in EnvValues
    /\ load = "not_attempted"
    /\ processor = NoProcessor
    /\ request = [endpoint |-> "none", body |-> BodyAbsent]
    /\ response = [endpoint |-> "none", status |-> 0, body |-> <<>>]
    /\ rnd = [ndvi |-> 0, num |-> 0, ndviSteps |-> 1]
    /\ calls = <<>>
    /\ prev = NoPrev

\* `processor = TerraMindProcessor()` at import time
Startup ==
    /\ phase = "boot"
    /\ \E outcome \in LoadOutcomes :
        LET made == TerraMindProcessor_init(env, outcome)
        IN  /\ processor' = made.self
            /\ load' = made.load
    /\ phase' = "running"
    /\ UNCHANGED <<env, request, response, rnd, calls, prev>>

Health ==
    /\ phase = "running"
    /\ LET h == health_check(processor)
       IN  /\ processor' = h.self
           /\ response' = [endpoint |-> "/health", status |-> h.status, body |-> h.body]
           /\ calls' = h.calls
    /\ request' = [endpoint |-> "/health", body |-> BodyAbsent]
    /\ UNCHANGED <<phase, env, load, rnd, prev>>

Capabilities ==
    /\ phase = "running"
    /\ LET c == get_capabilities(processor)
       IN  /\ processor' = c.self
           /\ response' = [endpoint |-> "/capabilities", status |-> c.status, body |-> c.body]
           /\ calls' = c.calls
    /\ request' = [endpoint |-> "/capabilities", body |-> BodyAbsent]
    /\ UNCHANGED <<phase, env, load, rnd, prev>>

\* POST /analyze with a body out of bodies and the draws out of draws.  With
\* remember, the answer may replace the remembered earlier answer.
AnalyzeWith(bodies, draws, remember) ==
    /\ phase = "running"
    /\ \E body \in bodies, r \in draws :
       \E gj \in get_json(body) :
       \E tok \in (IF processor.demo_mode \/ ~processor.model_loaded
                   THEN {"ok"} ELSE TokOutcomes) :
       \E a \in {analyze_geospatial(processor, gj, r, tok)} :
        LET resp == [endpoint |-> "/analyze", status |-> a.status, body |-> a.body]
            req == [endpoint |-> "/analyze", body |-> body]
        IN  /\ processor' = a.self
            /\ request' = req
            /\ response' = resp
            /\ rnd' = r
            /\ calls' = a.calls
            /\ \/ prev' = prev
               \/ remember /\ a.status = 200 /\ prev' = Summary(req, resp, r)
    /\ UNCHANGED <<phase, env, load>>

Analyze == AnalyzeWith(Bodies, Draws(NdviSteps), FALSE)

Next == Startup \/ Health \/ Analyze \/ Capabilities

Spec == Init /\ [][Next]_vars

----------------------------------------------------------------------------
(* The pairwise specification: any two /analyze answers of one run, the     *)
(* earlier one remembered in prev, with other requests in between.          *)

InitPairs == Init /\ env \in {Unset, EnvStr(Str_false)}

AnalyzePair == AnalyzeWith(PairBodies, Draws(1), TRUE)

NextPairs == Startup \/ Health \/ AnalyzePair

SpecPairs == InitPairs /\ [][NextPairs]_vars

----------------------------------------------------------------------------
(* Specifications of single answers: the processor runs in demo mode (the   *)
(* default, TERRAMIND_DEMO_MODE unset), one /analyze request is pending     *)
(* with its draws fixed, and the handler answers it.                        *)

Pending(body, r) ==
    /\ phase = "running"
    /\ env = Unset
    /\ load = TerraMindProcessor_init(Unset, "ok").load
    /\ processor = TerraMindProcessor_init(Unset, "ok").self
    /\ request = [endpoint |-> "/analyze", body |-> body]
    /\ response = [endpoint |-> "none", status |-> 0, body |-> <<>>]
    /\ rnd = r
    /\ calls = <<>>
    /\ prev = NoPrev

AnswerPending ==
    /\ phase = "running"
    /\ request.endpoint = "/analyze"
    /\ response.endpoint = "none"
    /\ \E gj \in get_json(request.body) :
       \E tok \in (IF processor.demo_mode \/ ~processor.model_loaded
                   THEN {"ok"} ELSE TokOutcomes) :
       \E a \in {analyze_geospatial(processor, gj, rnd, tok)} :
        /\ processor' = a.self
        /\ response' = [endpoint |-> "/analyze", status |-> a.status, body |-> a.body]
        /\ calls' = a.calls
    /\ UNCHANGED <<phase, env, load, request, rnd, prev>>

\* 0.05 degree, the step of the grid laid around each center
GridStep == Scale \div 20

GridOffsets == {i * GridStep : i \in (-GridSteps)..GridSteps}

GridCenters ==
    {<<urban_centers[i][1], urban_centers[i][2]>> : i \in 1..Len(urban_centers)}
    \cup {<<coastal_regions[i][1], coastal_regions[i][2]>> : i \in 1..Len(coastal_regions)}

\* coordinates on the grids, at the origin, and with lat or lng or both missing
ZoneCoordinates ==
    {LatLng(c[1] + dlat, c[2] + dlng) : c \in GridCenters, dlat \in GridOffsets,
                                        dlng \in GridOffsets}
    \cup {EmptyObj, LatLng(0, 0), Dict1("lat", JNum(130827)), Dict1("lng", JNum(802707))}

ZoneBodies ==
    {RequestObject(Present(JStr(Str_empty)), Present(c), Absent, Absent) :
        c \in ZoneCoordinates}
    \cup {RequestObject(Present(JStr(Str_empty)), Absent, Absent, Absent)}

InitZone == \E body \in ZoneBodies, r \in Draws(1) : Pending(body, r)

NextZone == AnswerPending

SpecZone == InitZone /\ [][NextZone]_vars

VegBody == RequestObject(Present(JStr(Str_empty)), Present(Pondicherry), Absent, Absent)

InitVeg == \E r \in Draws(VegSteps) : Pending(VegBody, r)

NextVeg == AnswerPending

SpecVeg == InitVeg /\ [][NextVeg]_vars

----------------------------------------------------------------------------
(* Vocabulary of the properties *)

Running == phase = "running"

Production == ~processor.demo_mode /\ processor.model_loaded

AnalyzeAnswered == Running /\ response.endpoint = "/analyze"

Answered200 == AnalyzeAnswered /\ response.status = 200

Entered(method) == \E i \in 1..Len(calls) : calls[i] = method

\* the four arguments the handler passes on for the request's JSON object
ArgQuery == DictGet(request.body, "query", JStr(Str_empty)).v
ArgSatelliteData == DictGet(request.body, "satellite_data", EmptyObj).v
ArgCoordinates == DictGet(request.body, "coordinates", EmptyObj).v
ArgAnalysisType == DictGet(request.body, "analysis_type", JStr(Str_general)).v

\* the request reached processor.analyze_geospatial_data
Analysed == AnalyzeAnswered /\ calls # <<>>

\* what generate_demo_analysis does with the request's arguments and draws
DemoOfRequest ==
    generate_demo_analysis(ArgQuery, ArgSatelliteData, ArgCoordinates, ArgAnalysisType, rnd)

\* lat and lng as evaluated for the request (0 when missing)
ReqLat == DictGet(ArgCoordinates, "lat", JNum(0)).v
ReqLng == DictGet(ArgCoordinates, "lng", JNum(0)).v

PrimaryClass == response.body.analysis.land_use_classification.primary_class
RiskTypes ==
    [i \in 1..Len(response.body.analysis.risk_factors) |->
        response.body.analysis.risk_factors[i].type]

----------------------------------------------------------------------------
(* C1 *)

\* C1 as stated: in production mode, once run_terramind_analysis has been
\* entered (and has raised), the /analyze response is a 200 with success = true
\* and mode = "demo".
C1_AlwaysDemo200 ==
    (Analysed /\ Production /\ Entered("run_terramind_analysis"))
        => /\ response.status = 200
           /\ response.body.success = TRUE
           /\ response.body.mode = "demo"

\* C1 as amended: in production mode, once run_terramind_analysis has raised,
\* its exception is not propagated and generate_demo_analysis is called with the
\* same arguments; when that call returns, its result is the 200 response
\* (success = true, mode = "demo"); when that call raises too, its exception
\* reaches the handler and the response is the 500 "Analysis failed".
C1_FallbackToDemo ==
    (Analysed /\ Production /\ Entered("run_terramind_analysis"))
        => /\ calls[Len(calls)] = "generate_demo_analysis"
           /\ DemoOfRequest.ok =>
                /\ response.status = 200
                /\ response.body = DemoOfRequest.v
                /\ response.body.success = TRUE
                /\ response.body.mode = "demo"
           /\ ~DemoOfRequest.ok =>
                /\ response.status = 500
                /\ response.body.message = DemoOfRequest.exc

\* the tokenizer ran, the real path raised, and the fallback answered
C1_Witness ==
    /\ Analysed /\ Production
    /\ Entered("tokenizer")
    /\ response.status = 200
    /\ response.body.mode = "demo"

----------------------------------------------------------------------------
(* C3 *)

\* C3, its second half: every /analyze request that carries a JSON object body
\* is not answered 400 "No data provided".
C3_ObjectBodyAccepted ==
    (AnalyzeAnswered /\ request.body.t = "obj") => response.status # 400

----------------------------------------------------------------------------
(* C4 *)

\* C4: once the processor is constructed, no request changes demo_mode,
\* model_loaded, model_name or the model and tokenizer handles.
C4_ProcessorFrozen == [][Running => processor' = processor]_vars

\* a production-mode request took the fallback path and failed in it
C4_Witness ==
    /\ Analysed /\ Production
    /\ response.status = 500
    /\ Entered("run_terramind_analysis")
    /\ Entered("generate_demo_analysis")

----------------------------------------------------------------------------
(* C5 *)

\* C5: every 200 response of /analyze has success = true, the model name, mode =
\* "demo", exactly the seven analysis sections, and metadata carrying the
\* request's coordinates object and analysis_type ('general' when omitted).
C5_ResponseSchema ==
    Answered200 =>
        /\ DOMAIN response.body = {"success", "model", "mode", "analysis", "metadata"}
        /\ response.body.success = TRUE
        /\ response.body.model = "TerraMind-1.0-large"
        /\ response.body.mode = "demo"
        /\ DOMAIN response.body.analysis =
              {"land_use_classification", "vegetation_health", "change_detection",
               "environmental_assessment", "multimodal_confidence",
               "geospatial_insights", "risk_factors"}
        /\ response.body.metadata.coordinates = ArgCoordinates
        /\ response.body.metadata.analysis_type = ArgAnalysisType
        /\ ("analysis_type" \notin DOMAIN request.body.v
                => response.body.metadata.analysis_type = JStr(Str_general))

\* a 200 answered by a production-mode processor to a request without analysis_type
C5_Witness ==
    /\ Answered200 /\ Production
    /\ "analysis_type" \notin DOMAIN request.body.v
    /\ "coordinates" \in DOMAIN request.body.v

----------------------------------------------------------------------------
(* C6 *)

\* the three outcomes of /analyze
C6_Outcome(resp) ==
    \/ resp.status = 200 /\ resp.body.success = TRUE
    \/ resp.status = 400 /\ resp.body = [error |-> "No data provided"]
    \/ /\ resp.status = 500
       /\ resp.body.error = "Analysis failed"
       /\ resp.body.fallback = TRUE

\* C6: every /analyze request ends in exactly one of 200 with a result, 400 "No
\* data provided" and 500 "Analysis failed" with fallback = true; a request
\* whose fields make the demo generator raise, also in the fallback call, gets
\* the 500 and leaves the processor unchanged.
C6_ThreeOutcomes ==
    [][(Running /\ response'.endpoint = "/analyze") =>
            /\ C6_Outcome(response')
            /\ response'.status \in {200, 400, 500}
            /\ (Entered("generate_demo_analysis")' /\ ~DemoOfRequest'.ok) =>
                    /\ response'.status = 500
                    /\ calls'[Len(calls')] = "generate_demo_analysis"
                    /\ processor' = processor]_vars

\* in demo mode the generator raised in the try block and again in the fallback
C6_Witness ==
    /\ Analysed /\ ~Production
    /\ response.status = 500
    /\ calls = <<"generate_demo_analysis", "generate_demo_analysis">>
    /\ ArgCoordinates.t = "list"

----------------------------------------------------------------------------
(* C7 *)

\* C7: run_terramind_analysis is entered only with demo_mode false and
\* model_loaded true; with demo_mode true or the model not loaded the request is
\* served by generate_demo_analysis alone, and neither the tokenizer nor
\* model.generate is entered.
C7_BranchOnDemoMode ==
    AnalyzeAnswered =>
        /\ Entered("run_terramind_analysis") => Production
        /\ (processor.demo_mode \/ ~processor.model_loaded) =>
                \A i \in 1..Len(calls) : calls[i] = "generate_demo_analysis"

\* the tokenizer was loaded but the model was not: the request is served by the
\* demo generator alone
C7_Witness ==
    /\ Analysed
    /\ load = "model_error"
    /\ processor.tokenizer = "loaded"
    /\ calls = <<"generate_demo_analysis">>
    /\ response.status = 200

----------------------------------------------------------------------------
(* C9 *)

\* equal to 'true' whatever the case of its letters
C9_IsTrueIgnoringCase(str) ==
    /\ Len(str) = 4
    /\ str[1] \in {"t", "T"} /\ str[2] \in {"r", "R"}
    /\ str[3] \in {"u", "U"} /\ str[4] \in {"e", "E"}

\* C9: after startup demo_mode is true exactly when model_loaded is false; with
\* TERRAMIND_DEMO_MODE unset or 'true' in any case no load is attempted; any
\* other value attempts it, a failed load gives demo mode without a loaded model,
\* a successful one gives production mode; /health reports 'production' exactly
\* when it reports model_loaded = true.
C9_DemoIffNotLoaded ==
    Running =>
        /\ processor.demo_mode <=> ~processor.model_loaded
        /\ (~env.set \/ C9_IsTrueIgnoringCase(env.v)) =>
                /\ load = "not_attempted"
                /\ processor.demo_mode /\ ~processor.model_loaded
                /\ processor.tokenizer = "unset" /\ processor.model = "unset"
        /\ (env.set /\ ~C9_IsTrueIgnoringCase(env.v)) =>
                /\ load # "not_attempted"
                /\ load = "ok" => (~processor.demo_mode /\ processor.model_loaded)
                /\ load # "ok" => (processor.demo_mode /\ ~processor.model_loaded)
        /\ response.endpoint = "/health" =>
                (response.body.mode = "production" <=> response.body.model_loaded = TRUE)

\* the load failed, startup went on, and /health answers in demo mode
C9_Witness ==
    /\ Running
    /\ load = "tokenizer_error"
    /\ response.endpoint = "/health"
    /\ response.body.mode = "demo"

----------------------------------------------------------------------------
(* C2 *)

----------------------------------------------------------------------------
(* C8 *)

\* d(c) <= 50 for one of the four urban centers
C8_InUrbanCircle(lat, lng) ==
    \E i \in 1..4 :
        WithinRadius(lat, lng, <<urban_centers[i][1], urban_centers[i][2], 50>>)

\* d(c) <= 30, 20, 15 for the first, second, third coastal region
C8_InCoastalCircle(lat, lng) ==
    \E i \in 1..3 :
        WithinRadius(lat, lng,
                     <<coastal_regions[i][1], coastal_regions[i][2], <<30, 20, 15>>[i]>>)

C8_Zone(lat, lng) ==
    IF C8_InUrbanCircle(lat, lng) THEN "urban"
    ELSE IF C8_InCoastalCircle(lat, lng) THEN "coastal"
    ELSE "rural"

\* C8: the land-use section and the risk section apply one rule, urban first:
\* primary_class is 'urban' and the risks are the air_pollution list exactly
\* inside an urban circle; 'coastal_mixed' and the sea_level_rise list exactly
\* inside a coastal circle and no urban one; 'agricultural' and the drought_risk
\* list exactly elsewhere; a request without lat and lng is evaluated at (0, 0)
\* and is agricultural.
C8_OneThresholdRule ==
    Answered200 =>
        LET zone == C8_Zone(ReqLat.v, ReqLng.v)
        IN  /\ Len(urban_centers) = 4 /\ Len(coastal_regions) = 3
            /\ (PrimaryClass = "urban") <=> (zone = "urban")
            /\ (RiskTypes = <<"air_pollution", "urban_heat_island", "water_stress">>)
                    <=> (zone = "urban")
            /\ (PrimaryClass = "coastal_mixed") <=> (zone = "coastal")
            /\ (RiskTypes = <<"sea_level_rise", "coastal_erosion", "storm_surge">>)
                    <=> (zone = "coastal")
            /\ (PrimaryClass = "agricultural") <=> (zone = "rural")
            /\ (RiskTypes = <<"drought_risk", "soil_degradation", "biodiversity_loss">>)
                    <=> (zone = "rural")
            /\ (ArgCoordinates.t = "obj" /\ DOMAIN ArgCoordinates.v = {}) =>
                    /\ ReqLat = JNum(0) /\ ReqLng = JNum(0)
                    /\ PrimaryClass = "agricultural"

\* a point off the centers, inside an urban and a coastal circle, answered as
\* urban in both sections
C8_Witness ==
    /\ Answered200
    /\ C8_InUrbanCircle(ReqLat.v, ReqLng.v)
    /\ C8_InCoastalCircle(ReqLat.v, ReqLng.v)
    /\ ReqLat.v \notin {urban_centers[i][1] : i \in 1..4}
    /\ PrimaryClass = "urban"
    /\ RiskTypes[1] = "air_pollution"

----------------------------------------------------------------------------
(* C10 *)

Vegetation == response.body.analysis.vegetation_health

\* tenths of NDVI compared with base_ndvi
C10_Above(tenths) == base_ndvi(rnd) * 10 > tenths * NdviScale
C10_Below(tenths) == base_ndvi(rnd) * 10 < tenths * NdviScale

\* what C10 says of drought_stress and the recommendations
C10_StressAndAdvice ==
    /\ (Vegetation.stress_indicators.drought_stress = "low") <=> C10_Above(6)
    /\ C10_Below(6) =>
            Vegetation.recommendations[1] = "Maintain current management practices"
    /\ ~C10_Below(6) =>
            Vegetation.recommendations[1] = "Excellent vegetation health detected"
    /\ Vegetation.recommendations[1] # "Consider soil health improvement programs"
    /\ Len(Vegetation.recommendations) = 3

\* C10 as stated: for every draw 0.3 <= ndvi < 0.8 the category is 'excellent'
\* above 0.7, 'good' above 0.5 up to 0.7 and 'moderate' otherwise, never 'poor'
\* or 'very_poor', with drought_stress and recommendations as claimed.
C10_NeverPoor ==
    (Answered200 /\ ~C10_Below(3) /\ C10_Below(8)) =>
        /\ Vegetation.health_category =
              (IF C10_Above(7) THEN "excellent"
               ELSE IF C10_Above(5) THEN "good" ELSE "moderate")
        /\ Vegetation.health_category \notin {"poor", "very_poor"}
        /\ C10_StressAndAdvice

\* C10 as amended: the same, except that the draw ndvi = 0.3 itself is
\* categorised 'poor' ('moderate' needs ndvi > 0.3); 'very_poor' never occurs.
C10_PoorOnlyAtLowerEnd ==
    (Answered200 /\ ~C10_Below(3) /\ C10_Below(8)) =>
        /\ Vegetation.health_category =
              (IF C10_Above(7) THEN "excellent"
               ELSE IF C10_Above(5) THEN "good"
               ELSE IF C10_Above(3) THEN "moderate" ELSE "poor")
        /\ Vegetation.health_category # "very_poor"
        /\ C10_StressAndAdvice

\* the lowest draw, 0.3: 'poor', with the 'Maintain' recommendations
C10_Witness ==
    /\ Answered200
    /\ base_ndvi(rnd) * 10 = 3 * NdviScale
    /\ Vegetation.health_category = "poor"
    /\ Vegetation.stress_indicators.drought_stress = "moderate"
    /\ Vegetation.recommendations[1] = "Maintain current management practices"

----------------------------------------------------------------------------
(* The insights specification: single answers, as above, to queries made of  *)
(* up to MaxWords words, under different analysis types and coordinates.     *)

Str_fish == <<"f", "i", "s", "h">>
Str_ing == <<"i", "n", "g">>
Str_space == <<" ">>
Str_hiking == <<"h", "i", "k", "i", "n", "g">>
Str_Development == <<"D", "e", "v", "e", "l", "o", "p", "m", "e", "n", "T">>

\* whole keywords in both cases, pieces that join into a keyword, and other text
QueryWords ==
    {Str_fishing, Str_Fishing, Str_water, Str_WATER, Str_Development,
     Str_fish, Str_ing, Str_space, Str_hiking}

\* the queries of at most n words, the words joined without separator
RECURSIVE QueriesOf(_)
QueriesOf(n) ==
    IF n = 0 THEN {Str_empty}
    ELSE QueriesOf(n - 1) \cup {q \o w : q \in QueriesOf(n - 1), w \in QueryWords}

InsightBodies ==
    {RequestObject(q, c, a, Absent) :
        q \in {Absent} \cup {Present(JStr(w)) : w \in QueriesOf(MaxWords)},
        c \in {Absent, Present(Chennai)},
        a \in {Absent, Present(JStr(Str_water)), Present(JStr(Str_fishing))}}
    \ {EmptyObj}

InitInsights == \E body \in InsightBodies, r \in Draws(1) : Pending(body, r)

NextInsights == AnswerPending

SpecInsights == InitInsights /\ [][NextInsights]_vars

----------------------------------------------------------------------------
(* C11 *)

Insights == response.body.analysis.geospatial_insights

\* the keyword occurs in the text, each letter in either case
C11_Mentions(text, lower, upper) ==
    \E i \in 1..(Len(text) - Len(lower) + 1) :
        \A j \in 1..Len(lower) : text[i + j - 1] \in {lower[j], upper[j]}

C11_Fishing(text) ==
    C11_Mentions(text, <<"f", "i", "s", "h", "i", "n", "g">>,
                       <<"F", "I", "S", "H", "I", "N", "G">>)

C11_Water(text) ==
    C11_Mentions(text, <<"w", "a", "t", "e", "r">>, <<"W", "A", "T", "E", "R">>)

C11_Development(text) ==
    C11_Mentions(text, <<"d", "e", "v", "e", "l", "o", "p", "m", "e", "n", "t">>,
                       <<"D", "E", "V", "E", "L", "O", "P", "M", "E", "N", "T">>)

\* the first entry of the list the query is to get, fishing before water
\* before development before the generic list
C11_Expected(text) ==
    IF C11_Fishing(text)
        THEN "Coastal water quality analysis indicates safe fishing conditions"
    ELSE IF C11_Water(text)
        THEN "Multi-spectral analysis reveals water body health status"
    ELSE IF C11_Development(text)
        THEN "Land use change analysis shows development patterns"
    ELSE "Comprehensive satellite analysis completed"

====
